---- MODULE Spec2Model ----
(***************************************************************************)
(* State-machine model of the Flappy Bird game script (src/unnamed/        *)
(* part_000 with the asset table of src/source.js).                        *)
(*                                                                         *)
(* Numbers.  The script computes with JavaScript Numbers (0.3, 1.8, 7.5,   *)
(* 289.5, Math.random() * 0.4 ...).  The model uses exact fixed point:     *)
(* every length and speed is an integer count of 1/10000 of a virtual      *)
(* pixel, so 600 is written 6000000 and 0.3 is written 3000.               *)
(*                                                                         *)
(* Control.  JavaScript runs one handler at a time.  pc is the position of *)
(* the handler that is running: "idle" between handlers, and the name of   *)
(* the next call of gameLoop's body while a pass of gameLoop runs.  No     *)
(* input handler is enabled while a pass runs.                             *)
(***************************************************************************)
EXTENDS Integers, Sequences, FiniteSets, TLC

VARIABLES
    bird,              \* the bird object (line 21, built at 131-137)
    pipes,             \* sequence of pipe objects
    particles,         \* sequence of feather particles
    clouds,            \* sequence of clouds
    score,
    gameRunning,
    gameOver,
    frameCount,
    spawnTimer,
    animationFrameId,  \* "undefined", or whether the callback it names is still "queued" or not ("stale")
    rafQueue,          \* number of gameLoop callbacks registered with requestAnimationFrame
    refreshLeft,       \* callbacks of the display refresh in progress that have not run yet
    pc,                \* position of the running handler
    entry,             \* who called the gameLoop pass in progress: "load", "click" or "raf"
    scoreDisplay,      \* scoreDisplay.innerText
    finalScoreDisplay, \* finalScoreDisplay.innerText
    modalHidden,       \* gameOverModal has class 'hidden'
    musicPlaying,      \* backgroundMusic is playing
    endGameCalls,      \* endGame() calls (= crashSound.play() calls) since the last startGame()
    seed,              \* which stream of Math.random() values this session sees
    ticks,             \* gameLoop passes completed since the last startGame()
    sessions,          \* startGame() calls so far
    flapped,           \* a flap input was handled since the last frame callback
    assets,            \* per entry of assetsToLoad: its load event and the state of its promise
    loadAssetsPromise, \* state of the promise loadAssets() returned, "none" before the call
    argRect1,             \* first argument of an isColliding call under test
    argRect2,             \* second argument of an isColliding call under test
    result             \* what that call returned: "untested", "true" or "false"

vars == <<bird, pipes, particles, clouds, score, gameRunning, gameOver, frameCount,
          spawnTimer, animationFrameId, rafQueue, refreshLeft, pc, entry,
          scoreDisplay, finalScoreDisplay, modalHidden, musicPlaying, endGameCalls,
          seed, ticks, sessions, flapped, assets, loadAssetsPromise, argRect1, argRect2, result>>

gameVars == <<bird, pipes, particles, clouds, score, gameRunning, gameOver, frameCount,
              spawnTimer, animationFrameId, rafQueue, refreshLeft, pc, entry,
              scoreDisplay, finalScoreDisplay, modalHidden, musicPlaying, endGameCalls,
              seed, ticks, sessions, flapped>>

assetVars == <<assets, loadAssetsPromise>>

pureVars == <<argRect1, argRect2, result>>

(***************************************************************************)
(* Program constants (lines 27-48), in 1/10000 px.                         *)
(***************************************************************************)
VIRTUAL_WIDTH == 4000000
VIRTUAL_HEIGHT == 6000000
BIRD_X == 500000
BIRD_WIDTH == 280000
BIRD_HEIGHT == 210000
GRAVITY == 3000
FLAP_STRENGTH == 0 - 75000
PIPE_WIDTH == 480000
PIPE_GAP == 2000000
PIPE_SPEED == 18000
PIPE_INTERVAL == 160

(***************************************************************************)
(* Bounds of the model.                                                    *)
(***************************************************************************)
MaxTicks == 300     \* gameLoop passes explored per session
MaxSessions == 2    \* startGame() calls explored
FlapEvery == 24     \* while running, flap inputs arrive only after every FlapEvery-th pass
NumSeeds == 2       \* Math.random() streams a session can see
RandMod == 1000     \* Math.random() returns k / RandMod, k in 0 .. RandMod-1

(***************************************************************************)
(* Math.random().  The i-th call made by a handler in pass t of a session  *)
(* with stream sd returns Rand(sd, t, i) / RandMod.  The value is fixed by *)
(* (sd, t, i) so that the random source needs no state of its own; which   *)
(* stream a session sees is chosen freely in startGame.                    *)
(***************************************************************************)
Rand(sd, t, i) == (sd * (4 + 57 * i) + 37 * t + 31 * i * i + 61 * i + 890) % RandMod

\* Math.random() * range, for a range given in 1/10000 px
Scaled(r, range) == (range \div RandMod) * r

Undefined == [x |-> 0, y |-> 0, width |-> 0, height |-> 0, velocity |-> 0]

\* the game variables when the script has been evaluated (lines 14-48)
InitGame ==
    /\ bird = Undefined
    /\ pipes = << >>
    /\ particles = << >>
    /\ clouds = << >>
    /\ score = 0
    /\ gameRunning = FALSE
    /\ gameOver = FALSE
    /\ frameCount = 0
    /\ spawnTimer = 0
    /\ animationFrameId = "undefined"
    /\ rafQueue = 0
    /\ refreshLeft = 0
    /\ pc = "init"
    /\ entry = "load"
    /\ scoreDisplay = 0
    /\ finalScoreDisplay = 0
    /\ modalHidden = TRUE
    /\ musicPlaying = FALSE
    /\ endGameCalls = 0
    /\ seed = 0
    /\ ticks = 0
    /\ sessions = 0
    /\ flapped = FALSE

(***************************************************************************)
(* loadAssets (lines 70-125) over the asset table of src/source.js         *)
(***************************************************************************)
\* the entries of assetsToLoad (lines 80-86)
AssetNames == {"birdImg", "pipeImg", "gameOverImg", "backgroundMusic", "crashSound"}

assetType(a) == IF a \in {"backgroundMusic", "crashSound"} THEN "audio" ELSE "image"

\* asset.src.includes('your-site.com'): no path of src/source.js contains it
isPlaceholder(a) == FALSE

NoHandlers == [onload |-> "none", oncanplaythrough |-> "none", onerror |-> "none"]

\* before loadAssets runs: no handler, no promise, src not assigned
NoAsset == [handlers |-> NoHandlers, promise |-> "none", event |-> "unset"]

\* the handlers after the branch on asset.type (lines 91-107)
typeHandlers(type) ==
    IF type = "image"
    THEN [NoHandlers EXCEPT !.onload = "resolve"]
    ELSE IF type = "audio"
         THEN [NoHandlers EXCEPT !.oncanplaythrough = "resolve", !.onerror = "resolve"]
         ELSE NoHandlers

\* the promise executor (lines 89-121): the handlers it leaves on the object,
\* the state of the promise when it returns, and whether src was assigned
executor(type, placeholder) ==
    IF type = "audio" /\ placeholder
    THEN [handlers |-> typeHandlers(type), promise |-> "resolved", event |-> "unset"]
    ELSE [handlers |-> [typeHandlers(type) EXCEPT !.onerror = "reject"],
          promise |-> "pending",
          event |-> "loading"]

\* resolve() or reject() called by a handler; a settled promise does not change
settle(promise, handler) ==
    IF promise # "pending" THEN promise
    ELSE IF handler = "resolve" THEN "resolved"
    ELSE IF handler = "reject" THEN "rejected"
    ELSE promise

\* Promise.all(promises) (line 124)
promiseAll(as) ==
    IF \E a \in AssetNames : as[a].promise = "rejected" THEN "rejected"
    ELSE IF \A a \in AssetNames : as[a].promise = "resolved" THEN "fulfilled"
    ELSE "pending"

loadedAssets == [a \in AssetNames |-> executor(assetType(a), isPlaceholder(a))]

\* the load event of an image, the canplaythrough event of an audio element
AssetLoads(a) ==
    /\ pc = "idle"
    /\ refreshLeft = 0
    /\ assets[a].event = "loading"
    /\ LET h == IF assetType(a) = "image" THEN assets[a].handlers.onload
                                          ELSE assets[a].handlers.oncanplaythrough
           ev == IF assetType(a) = "image" THEN "load" ELSE "canplaythrough"
       IN assets' = [assets EXCEPT ![a].event = ev, ![a].promise = settle(@, h)]
    /\ loadAssetsPromise' =
          IF loadAssetsPromise = "pending" THEN promiseAll(assets') ELSE loadAssetsPromise
    /\ UNCHANGED <<gameVars, pureVars>>

\* the error event of an image or audio element
AssetFails(a) ==
    /\ pc = "idle"
    /\ refreshLeft = 0
    /\ assets[a].event = "loading"
    /\ assets' = [assets EXCEPT ![a].event = "error",
                                ![a].promise = settle(@, assets[a].handlers.onerror)]
    /\ loadAssetsPromise' =
          IF loadAssetsPromise = "pending" THEN promiseAll(assets') ELSE loadAssetsPromise
    /\ UNCHANGED <<gameVars, pureVars>>

AssetLoaded == \E a \in AssetNames : AssetLoads(a)

AssetFailed == \E a \in AssetNames : AssetFails(a)

NoRect == [x |-> 0, y |-> 0, width |-> 0, height |-> 0]

Init ==
    /\ InitGame
    /\ assets = [a \in AssetNames |-> NoAsset]
    /\ loadAssetsPromise = "none"
    /\ argRect1 = NoRect
    /\ argRect2 = NoRect
    /\ result = "untested"
(***************************************************************************)
(* generateCloud, generatePipe, createFeathers                             *)
(***************************************************************************)
\* generateCloud(randomX): the four Math.random() calls are i, i+1, i+2, i+3
generateCloud(randomX, sd, t, i) ==
    [x     |-> IF randomX THEN Scaled(Rand(sd, t, i), VIRTUAL_WIDTH)
                          ELSE VIRTUAL_WIDTH + Scaled(Rand(sd, t, i), 1000000),
     y     |-> Scaled(Rand(sd, t, i + 1), VIRTUAL_HEIGHT \div 2),
     size  |-> Scaled(Rand(sd, t, i + 2), 250000) + 200000,
     speed |-> Scaled(Rand(sd, t, i + 3), 4000) + 1000]

minHeight == 800000
maxHeight == VIRTUAL_HEIGHT - PIPE_GAP - minHeight

\* mutant of topPipeHeight: the random range is not narrowed by the bottom margin
topPipeHeightWide(r) ==
    ((r * (maxHeight \div 10000 + 1)) \div RandMod) * 10000 + minHeight

\* Math.floor(Math.random() * (maxHeight - minHeight + 1)) + minHeight
topPipeHeight(r) ==
    ((r * ((maxHeight - minHeight) \div 10000 + 1)) \div RandMod) * 10000 + minHeight

\* generatePipe(xOverride); r is the Math.random() result
generatePipe(startX, r) ==
    [x |-> startX,
     topHeight |-> topPipeHeight(r),
     bottomY |-> topPipeHeight(r) + PIPE_GAP,
     passed |-> FALSE]

\* life of a new particle (line 258)
FeatherLife == 30

\* one particle of createFeathers; its three Math.random() calls are i, i+1, i+2
Feather(b, sd, t, i) ==
    [x      |-> b.x,
     y      |-> b.y + b.height \div 2,
     size   |-> Scaled(Rand(sd, t, i), 30000) + 20000,
     speedX |-> 0 - Scaled(Rand(sd, t, i + 1), 20000) - 10000,
     speedY |-> Scaled(Rand(sd, t, i + 2), 20000) - 10000,
     life   |-> FeatherLife]

createFeathers(amount, b, sd, t) ==
    [k \in 1 .. amount |-> Feather(b, sd, t, 5 + 3 * (k - 1))]

(***************************************************************************)
(* startGame (lines 129-174): resets the world, seeds 5 clouds and 3       *)
(* pipes, starts the music and calls gameLoop() synchronously.             *)
(***************************************************************************)
InitialBird ==
    [x |-> BIRD_X,
     y |-> VIRTUAL_HEIGHT \div 2 - BIRD_HEIGHT \div 2,
     width |-> BIRD_WIDTH,
     height |-> BIRD_HEIGHT,
     velocity |-> 0]

InitialClouds(sd) == [k \in 1 .. 5 |-> generateCloud(TRUE, sd, 0, 15 + 4 * (k - 1))]

initialPipes == 3

InitialPipes(sd) ==
    [k \in 1 .. initialPipes |->
        generatePipe(VIRTUAL_WIDTH + (k - 1) * (PIPE_INTERVAL * PIPE_SPEED) + 500000,
                     Rand(sd, 0, 35 + (k - 1)))]

\* mutant of StartPipes: the old list is not cleared
StartPipesKept(old, sd) == old \o InitialPipes(sd)

\* the pipe list startGame builds from what the list held before
StartPipes(old, sd) == InitialPipes(sd)

startGame(sd, from) ==
    /\ bird' = InitialBird
    /\ pipes' = StartPipes(pipes, sd)
    /\ particles' = << >>
    /\ clouds' = InitialClouds(sd)
    /\ score' = 0
    /\ gameRunning' = TRUE
    /\ gameOver' = FALSE
    /\ frameCount' = 0
    /\ spawnTimer' = 0
    /\ scoreDisplay' = 0
    /\ modalHidden' = TRUE
    /\ musicPlaying' = TRUE
    /\ endGameCalls' = 0
    /\ seed' = sd
    /\ ticks' = 0
    /\ sessions' = sessions + 1
    /\ flapped' = FALSE
    /\ entry' = from
    /\ pc' = "updateClouds"      \* gameLoop(): gameRunning is true, the pass begins
    /\ UNCHANGED <<assets, loadAssetsPromise, argRect1, argRect2, result>>
    /\ UNCHANGED <<animationFrameId, rafQueue, refreshLeft, finalScoreDisplay>>

\* window.onload (lines 432-449)
OnLoad ==
    /\ pc = "init"
    /\ \E sd \in 0 .. NumSeeds - 1 : startGame(sd, "load")

\* click on restartGameBtn (line 416); the button is in the game-over modal
RestartClick ==
    /\ pc = "idle"
    /\ refreshLeft = 0
    /\ ~modalHidden
    /\ sessions < MaxSessions
    /\ \E sd \in 0 .. NumSeeds - 1 : startGame(sd, "click")

(***************************************************************************)
(* endGame (lines 176-204), as the changes it makes when called from a     *)
(* gameLoop pass; q and left are the callback counts before the call.      *)
(***************************************************************************)
\* cancelAnimationFrame(animationFrameId): the queue length it leaves
CancelQueue(id, q) == IF id = "queued" THEN q - 1 ELSE q

\* the callback named by animationFrameId is the newest one; it belongs to the
\* refresh in progress exactly when nothing was requested during this refresh
CancelLeft(id, q, left) == IF id = "queued" /\ left = q THEN left - 1 ELSE left

CancelId(id) == IF id = "queued" THEN "stale" ELSE id

\* mutant of endGameFlags: the final score is not written to its display
endGameKeepsFinalScore ==
    /\ gameRunning' = FALSE
    /\ gameOver' = TRUE
    /\ musicPlaying' = FALSE
    /\ finalScoreDisplay' = finalScoreDisplay
    /\ modalHidden' = FALSE

\* endGame (lines 176-204), apart from cancelAnimationFrame and the crash sound
endGameFlags ==
    /\ gameRunning' = FALSE
    /\ gameOver' = TRUE
    /\ musicPlaying' = FALSE
    /\ finalScoreDisplay' = score
    /\ modalHidden' = FALSE

(***************************************************************************)
(* flap (lines 206-211)                                                    *)
(***************************************************************************)
\* mutant of flapBird: the impulse is added to the velocity
flapBirdAdds(b) == [b EXCEPT !.velocity = @ + (0 - 75000)]

flapBird(b) == [b EXCEPT !.velocity = FLAP_STRENGTH]

flapFeathers == 3

flap ==
    IF gameRunning
    THEN /\ bird' = flapBird(bird)
         /\ particles' = particles \o createFeathers(flapFeathers, bird, seed, ticks)
    ELSE UNCHANGED <<bird, particles>>

\* keydown Space, click or touchstart on the window (lines 418-427)
Flap ==
    /\ pc \in {"init", "idle"}
    /\ refreshLeft = 0
    /\ ~flapped
    /\ gameRunning => ticks % FlapEvery = 0
    /\ flap
    /\ flapped' = TRUE
    /\ UNCHANGED <<assets, loadAssetsPromise, argRect1, argRect2, result>>
    /\ UNCHANGED <<pipes, clouds, score, gameRunning, gameOver, frameCount, spawnTimer,
                   animationFrameId, rafQueue, refreshLeft, pc, entry, scoreDisplay,
                   finalScoreDisplay, modalHidden, musicPlaying, endGameCalls, seed,
                   ticks, sessions>>

\* the click on the restart button bubbles to the window's click listener (line 423)
WindowClick ==
    /\ pc = "windowClick"
    /\ flap
    /\ flapped' = TRUE
    /\ pc' = "idle"
    /\ UNCHANGED <<assets, loadAssetsPromise, argRect1, argRect2, result>>
    /\ UNCHANGED <<pipes, clouds, score, gameRunning, gameOver, frameCount, spawnTimer,
                   animationFrameId, rafQueue, refreshLeft, entry, scoreDisplay,
                   finalScoreDisplay, modalHidden, musicPlaying, endGameCalls, seed,
                   ticks, sessions>>

(***************************************************************************)
(* gameLoop (lines 381-413), one action per call of its body               *)
(***************************************************************************)
\* the browser runs the oldest registered callback; gameLoop returns at once
\* when the game is not running
FrameCallback ==
    /\ pc = "idle"
    /\ rafQueue > 0
    /\ gameRunning => ticks < MaxTicks
    /\ rafQueue' = rafQueue - 1
    /\ refreshLeft' = (IF refreshLeft = 0 THEN rafQueue ELSE refreshLeft) - 1
    /\ animationFrameId' = IF rafQueue = 1 THEN CancelId(animationFrameId) ELSE animationFrameId
    /\ flapped' = FALSE
    /\ IF gameRunning
       THEN pc' = "updateClouds" /\ entry' = "raf"
       ELSE UNCHANGED <<pc, entry>>
    /\ UNCHANGED <<assets, loadAssetsPromise, argRect1, argRect2, result>>
    /\ UNCHANGED <<bird, pipes, particles, clouds, score, gameRunning, gameOver, frameCount,
                   spawnTimer, scoreDisplay, finalScoreDisplay, modalHidden, musicPlaying,
                   endGameCalls, seed, ticks, sessions>>

\* updateClouds (lines 223-235)
MoveCloud(c) == [c EXCEPT !.x = @ - c.speed]

CloudGone(c) == c.x + c.size * 3 < 0

updateCloudsList(cs) ==
    SelectSeq([k \in 1 .. Len(cs) |-> MoveCloud(cs[k])], LAMBDA c : ~CloudGone(c))

\* Math.random() < 0.005
SpawnsCloud(r) == r * 1000 < 5 * RandMod

UpdateClouds ==
    /\ pc = "updateClouds"
    /\ clouds' = IF gameRunning /\ SpawnsCloud(Rand(seed, ticks, 0))
                 THEN Append(updateCloudsList(clouds), generateCloud(FALSE, seed, ticks, 1))
                 ELSE updateCloudsList(clouds)
    /\ pc' = "updateBird"
    /\ UNCHANGED <<assets, loadAssetsPromise, argRect1, argRect2, result>>
    /\ UNCHANGED <<bird, pipes, particles, score, gameRunning, gameOver, frameCount,
                   spawnTimer, animationFrameId, rafQueue, refreshLeft, entry, scoreDisplay,
                   finalScoreDisplay, modalHidden, musicPlaying, endGameCalls, seed, ticks,
                   sessions, flapped>>

\* updateBird (lines 302-315)
fallenBird(b) ==
    [b EXCEPT !.velocity = b.velocity + GRAVITY, !.y = b.y + b.velocity + GRAVITY]

\* mutant of hitsFloor: the floor is never detected
hitsFloorNever(b) == FALSE

hitsFloor(b) == b.y + b.height > VIRTUAL_HEIGHT

floorClamp(b) ==
    IF hitsFloor(b) THEN [b EXCEPT !.y = VIRTUAL_HEIGHT - b.height, !.velocity = 0] ELSE b

\* mutant of ceilingClamp: no clamp at the ceiling
ceilingClampMissing(b) == b

\* mutant of ceilingClamp: the clamp leaves the velocity
ceilingClampKeepsVelocity(b) ==
    IF b.y < 0 THEN [b EXCEPT !.y = 0] ELSE b

ceilingClamp(b) ==
    IF b.y < 0 THEN [b EXCEPT !.y = 0, !.velocity = 0] ELSE b

updateBirdResult(b) == ceilingClamp(floorClamp(fallenBird(b)))

UpdateBird ==
    /\ pc = "updateBird"
    /\ bird' = updateBirdResult(bird)
    /\ IF hitsFloor(fallenBird(bird))
       THEN /\ endGameFlags
            /\ endGameCalls' = endGameCalls + 1
            /\ rafQueue' = CancelQueue(animationFrameId, rafQueue)
            /\ refreshLeft' = CancelLeft(animationFrameId, rafQueue, refreshLeft)
            /\ animationFrameId' = CancelId(animationFrameId)
       ELSE UNCHANGED <<gameRunning, gameOver, musicPlaying, finalScoreDisplay, modalHidden,
                        endGameCalls, rafQueue, refreshLeft, animationFrameId>>
    /\ pc' = "updatePipes"
    /\ UNCHANGED <<assets, loadAssetsPromise, argRect1, argRect2, result>>
    /\ UNCHANGED <<pipes, particles, clouds, score, frameCount, spawnTimer, entry,
                   scoreDisplay, seed, ticks, sessions, flapped>>

\* updatePipes (lines 317-339)
\* mutant of Spawns: the timer is compared with > instead of >=
SpawnsLate(timer) == timer + 1 > PIPE_INTERVAL

Spawns(timer) == timer + 1 >= PIPE_INTERVAL

MovePipe(p) == [p EXCEPT !.x = @ - PIPE_SPEED]

\* mutant of Scores: the passed flag is not consulted
ScoresAgain(p, b) == p.x + PIPE_WIDTH < b.x

Scores(p, b) == ~p.passed /\ p.x + PIPE_WIDTH < b.x

\* mutant of MarkPipe: the passed flag is never set
MarkPipeForgets(p, b) == p

MarkPipe(p, b) == IF Scores(p, b) THEN [p EXCEPT !.passed = TRUE] ELSE p

PipeGone(p) == p.x + PIPE_WIDTH < 0

\* the list after the spawn step
SpawnedPipes(ps, timer, r) ==
    IF Spawns(timer) THEN Append(ps, generatePipe(VIRTUAL_WIDTH, r)) ELSE ps

MovedPipes(ps) == [k \in 1 .. Len(ps) |-> MovePipe(ps[k])]

\* number of pipes of a moved list that the loop scores
Scored(ps, b) == Cardinality({k \in 1 .. Len(ps) : Scores(ps[k], b)})

\* the list the loop leaves: every pipe moved and marked, the ones off the left edge spliced out
updatePipesList(ps, b) ==
    SelectSeq([k \in 1 .. Len(ps) |-> MarkPipe(MovePipe(ps[k]), b)], LAMBDA p : ~PipeGone(p))

UpdatePipes ==
    /\ pc = "updatePipes"
    /\ spawnTimer' = IF Spawns(spawnTimer) THEN 0 ELSE spawnTimer + 1
    /\ LET ps == SpawnedPipes(pipes, spawnTimer, Rand(seed, ticks, 14))
           n == Scored(MovedPipes(ps), bird)
       IN /\ pipes' = updatePipesList(ps, bird)
          /\ score' = score + n
          /\ scoreDisplay' = IF n > 0 THEN score + n ELSE scoreDisplay
    /\ pc' = "updateParticles"
    /\ UNCHANGED <<assets, loadAssetsPromise, argRect1, argRect2, result>>
    /\ UNCHANGED <<bird, particles, clouds, gameRunning, gameOver, frameCount,
                   animationFrameId, rafQueue, refreshLeft, entry, finalScoreDisplay,
                   modalHidden, musicPlaying, endGameCalls, seed, ticks, sessions, flapped>>

\* mutant of MoveParticle: the life is not decremented
MoveParticleAgeless(p) == [p EXCEPT !.x = @ + p.speedX, !.y = @ + p.speedY]

\* updateParticles (lines 264-274)
MoveParticle(p) == [p EXCEPT !.x = @ + p.speedX, !.y = @ + p.speedY, !.life = @ - 1]

updateParticlesList(ps) ==
    SelectSeq([k \in 1 .. Len(ps) |-> MoveParticle(ps[k])], LAMBDA p : ~(p.life <= 0))

UpdateParticles ==
    /\ pc = "updateParticles"
    /\ particles' = updateParticlesList(particles)
    /\ pc' = "checkCollisions"
    /\ UNCHANGED <<assets, loadAssetsPromise, argRect1, argRect2, result>>
    /\ UNCHANGED <<bird, pipes, clouds, score, gameRunning, gameOver, frameCount, spawnTimer,
                   animationFrameId, rafQueue, refreshLeft, entry, scoreDisplay,
                   finalScoreDisplay, modalHidden, musicPlaying, endGameCalls, seed, ticks,
                   sessions, flapped>>

\* mutant of isColliding: the first comparison admits equality
isCollidingTouching(rect1, rect2) ==
    /\ rect1.x <= rect2.x + rect2.width
    /\ rect1.x + rect1.width > rect2.x
    /\ rect1.y < rect2.y + rect2.height
    /\ rect1.y + rect1.height > rect2.y

\* isColliding (lines 354-361)
isColliding(rect1, rect2) ==
    /\ rect1.x < rect2.x + rect2.width
    /\ rect1.x + rect1.width > rect2.x
    /\ rect1.y < rect2.y + rect2.height
    /\ rect1.y + rect1.height > rect2.y

\* checkCollisions (lines 341-352): the three rectangles built for one pipe
birdRect(b) == [x |-> b.x, y |-> b.y, width |-> b.width, height |-> b.height]

topPipeRect(p) == [x |-> p.x, y |-> 0, width |-> PIPE_WIDTH, height |-> p.topHeight]

bottomPipeRect(p) ==
    [x |-> p.x, y |-> p.bottomY, width |-> PIPE_WIDTH, height |-> VIRTUAL_HEIGHT - p.bottomY]

\* mutant of hitsPipe: the bottom segment is not tested
hitsPipeTopOnly(b, p) == isColliding(birdRect(b), topPipeRect(p))

hitsPipe(b, p) ==
    isColliding(birdRect(b), topPipeRect(p)) \/ isColliding(birdRect(b), bottomPipeRect(p))

\* checkCollisions calls endGame (once, then returns) when some pipe is hit
collides(b, ps) == \E k \in 1 .. Len(ps) : hitsPipe(b, ps[k])

\* checkCollisions, then the end of gameLoop (lines 405-413):
\* animationFrameId = requestAnimationFrame(gameLoop), and control returns to the caller
CheckCollisions ==
    /\ pc = "checkCollisions"
    /\ LET hit == collides(bird, pipes)
           q == IF hit THEN CancelQueue(animationFrameId, rafQueue) ELSE rafQueue
           left == IF hit THEN CancelLeft(animationFrameId, rafQueue, refreshLeft)
                          ELSE refreshLeft
       IN /\ IF hit
             THEN endGameFlags /\ endGameCalls' = endGameCalls + 1
             ELSE UNCHANGED <<gameRunning, gameOver, musicPlaying, finalScoreDisplay,
                              modalHidden, endGameCalls>>
          /\ rafQueue' = q + 1
          /\ refreshLeft' = left
          /\ animationFrameId' = "queued"
    /\ ticks' = ticks + 1
    /\ pc' = IF entry = "click" THEN "windowClick" ELSE "idle"
    /\ IF entry = "load"      \* startGame() returned to window.onload, which calls loadAssets()
       THEN /\ assets' = loadedAssets
            /\ loadAssetsPromise' = promiseAll(loadedAssets)
       ELSE UNCHANGED <<assets, loadAssetsPromise>>
    /\ UNCHANGED <<argRect1, argRect2, result>>
    /\ UNCHANGED <<bird, pipes, particles, clouds, score, frameCount, spawnTimer, entry,
                   scoreDisplay, seed, sessions, flapped>>

Next ==
    \/ OnLoad
    \/ RestartClick
    \/ Flap
    \/ WindowClick
    \/ FrameCallback
    \/ UpdateClouds
    \/ UpdateBird
    \/ UpdatePipes
    \/ UpdateParticles
    \/ CheckCollisions

Spec == Init /\ [][Next]_vars

(***************************************************************************)
(* Asset loading next to the first passes of the game: the load and error  *)
(* events of the five assets arrive in any order between the frames.       *)
(***************************************************************************)
LoadTicks == 2      \* gameLoop passes explored while the assets load

EarlyFrame == ticks < LoadTicks /\ FrameCallback

NextAssets ==
    \/ OnLoad
    \/ EarlyFrame
    \/ UpdateClouds
    \/ UpdateBird
    \/ UpdatePipes
    \/ UpdateParticles
    \/ CheckCollisions
    \/ AssetLoaded
    \/ AssetFailed

SpecAssets == Init /\ [][NextAssets]_vars

(***************************************************************************)
(* Rapid input: a flap in almost every gap between two frames, for the     *)
(* first passes of the first session.                                      *)
(***************************************************************************)
FeatherTicks == 40  \* gameLoop passes explored under rapid input
SkipEvery == 8      \* the gaps in which the player may leave the flap out

\* keydown Space, click or touchstart on the window (lines 418-427), in any gap
RapidFlap ==
    /\ pc = "idle"
    /\ refreshLeft = 0
    /\ ~flapped
    /\ flap
    /\ flapped' = TRUE
    /\ UNCHANGED <<assets, loadAssetsPromise, argRect1, argRect2, result>>
    /\ UNCHANGED <<pipes, clouds, score, gameRunning, gameOver, frameCount, spawnTimer,
                   animationFrameId, rafQueue, refreshLeft, pc, entry, scoreDisplay,
                   finalScoreDisplay, modalHidden, musicPlaying, endGameCalls, seed,
                   ticks, sessions>>

\* the next frame comes after the flap of this gap
FrameAfterFlap ==
    /\ ticks < FeatherTicks
    /\ flapped \/ ticks % SkipEvery = 0
    /\ FrameCallback

NextFeathers ==
    \/ OnLoad
    \/ RapidFlap
    \/ FrameAfterFlap
    \/ UpdateClouds
    \/ UpdateBird
    \/ UpdatePipes
    \/ UpdateParticles
    \/ CheckCollisions

SpecFeathers == Init /\ [][NextFeathers]_vars

(***************************************************************************)
(* No input from the player apart from the click on the restart button:    *)
(* the browser keeps delivering frame callbacks and every handler that has *)
(* started runs to its end.                                                *)
(***************************************************************************)
NextNoFlap ==
    \/ OnLoad
    \/ RestartClick
    \/ WindowClick
    \/ FrameCallback
    \/ UpdateClouds
    \/ UpdateBird
    \/ UpdatePipes
    \/ UpdateParticles
    \/ CheckCollisions

SpecNoFlap ==
    /\ Init
    /\ [][NextNoFlap]_vars
    /\ WF_vars(OnLoad)
    /\ WF_vars(WindowClick)
    /\ WF_vars(FrameCallback)
    /\ WF_vars(UpdateClouds)
    /\ WF_vars(UpdateBird)
    /\ WF_vars(UpdatePipes)
    /\ WF_vars(UpdateParticles)
    /\ WF_vars(CheckCollisions)

(***************************************************************************)
(* isColliding applied to every pair of rectangles of a small grid         *)
(***************************************************************************)
GridMax == 3        \* rectangle corners range over 0 .. GridMax
SizeMax == 3        \* widths and heights range over 1 .. SizeMax

Rects == [x : 0 .. GridMax, y : 0 .. GridMax, width : 1 .. SizeMax, height : 1 .. SizeMax]

InitColliding ==
    /\ InitGame
    /\ assets = [a \in AssetNames |-> NoAsset]
    /\ loadAssetsPromise = "none"
    /\ argRect1 \in Rects
    /\ argRect2 \in Rects
    /\ result = "untested"

CallIsColliding ==
    /\ result = "untested"
    /\ result' = IF isColliding(argRect1, argRect2) THEN "true" ELSE "false"
    /\ UNCHANGED <<gameVars, assetVars, argRect1, argRect2>>

NextColliding == CallIsColliding

SpecColliding == InitColliding /\ [][NextColliding]_vars

(***************************************************************************)
(* Helpers of the properties, stated without the program's own tests       *)
(***************************************************************************)
Max2(a, b) == IF a > b THEN a ELSE b
Min2(a, b) == IF a < b THEN a ELSE b

\* the open intervals (a1, a2) and (b1, b2) share a point
StrictOverlap(a1, a2, b1, b2) == Max2(a1, b1) < Min2(a2, b2)

\* the bird's rectangle strictly overlaps the top or the bottom segment of pipe p
BirdInPipe(b, p) ==
    /\ StrictOverlap(b.x, b.x + BIRD_WIDTH, p.x, p.x + PIPE_WIDTH)
    /\ \/ StrictOverlap(b.y, b.y + BIRD_HEIGHT, 0, p.topHeight)
       \/ StrictOverlap(b.y, b.y + BIRD_HEIGHT, p.bottomY, VIRTUAL_HEIGHT)

BirdInSomePipe == \E k \in 1 .. Len(pipes) : BirdInPipe(bird, pipes[k])

\* y the bird would have after this pass's gravity step, before any clamp
RawY == bird.y + bird.velocity + GRAVITY

\* a step inside a game session (not startGame, not before the first start)
SameSession == sessions > 0 /\ sessions' = sessions

\* updatePipes calls made so far in this session
PipeUpdates == ticks + (IF pc \in {"updateParticles", "checkCollisions"} THEN 1 ELSE 0)

\* pipes created so far in this session: the pre-spawned ones and one per full interval
PipesCreated == 3 + PipeUpdates \div PIPE_INTERVAL

PassedInList == Cardinality({k \in 1 .. Len(pipes) : pipes[k].passed})

\* pipes whose right edge moved strictly left of the bird in the update just made
JustPassed(ps) ==
    Cardinality({k \in 1 .. Len(ps) :
        /\ ps[k].passed
        /\ ps[k].x + PIPE_WIDTH < BIRD_X
        /\ ps[k].x + PIPE_SPEED + PIPE_WIDTH >= BIRD_X})

(***************************************************************************)
(* C1: at most one gameLoop callback is ever scheduled through             *)
(* requestAnimationFrame, whatever the interleaving of frame callbacks,    *)
(* flaps, game ends and restart clicks.                                    *)
(***************************************************************************)
C1_OneLoop == rafQueue <= 1

(***************************************************************************)
(* C2: once endGame has set gameRunning to false, bird, pipes, particles,  *)
(* clouds, score and spawnTimer do not change until startGame runs again,  *)
(* the rest of the frame that called endGame included.                     *)
(***************************************************************************)
C2_Frozen ==
    [][(~gameRunning /\ ~gameRunning')
          => UNCHANGED <<bird, pipes, particles, clouds, score, spawnTimer>>]_vars

(***************************************************************************)
(* C3: a floor hit found by updateBird clamps the bird to                  *)
(* y = VIRTUAL_HEIGHT - BIRD_HEIGHT with velocity 0, and endGame (and the  *)
(* crash cue) happens exactly once for that game over: never a second call *)
(* before the next startGame.                                              *)
(***************************************************************************)
C3_FloorOnce ==
    /\ (pc = "updatePipes" /\ ~gameRunning)
          => (bird.y = 6000000 - 210000 /\ bird.velocity = 0 /\ endGameCalls = 1)
    /\ endGameCalls <= 1

(***************************************************************************)
(* C4: within a session score never decreases; an updatePipes pass raises  *)
(* it by exactly the number of pipes whose right edge got strictly left of *)
(* bird.x in that pass and no other step changes it; a pipe is marked      *)
(* passed exactly when its right edge is left of bird.x; and score equals  *)
(* the number of pipes of the session marked passed (those still in the    *)
(* list and those already removed).                                        *)
(***************************************************************************)
C4_Counted ==
    /\ \A k \in 1 .. Len(pipes) : pipes[k].passed <=> (pipes[k].x + PIPE_WIDTH < BIRD_X)
    /\ score = PassedInList + (PipesCreated - Len(pipes))

C4_Score ==
    [][SameSession =>
          /\ score' >= score
          /\ score' - score = (IF pc = "updatePipes" THEN JustPassed(pipes') ELSE 0)
          /\ C4_Counted']_vars

C4_Witness == gameRunning /\ score = 1 /\ PassedInList = 1 /\ pc = "idle"

(***************************************************************************)
(* C5: a running game stops in a frame if and only if the bird hit the     *)
(* floor in that frame or its rectangle strictly overlaps a pipe segment   *)
(* after the frame's updates: a pass that ends with such an overlap leaves *)
(* gameRunning false, a floor hit sets it false, and nothing else does     *)
(* (no ceiling hit, no edge touch).                                        *)
(***************************************************************************)
C5_Stops ==
    [][/\ (pc = "updateBird" /\ RawY + BIRD_HEIGHT > VIRTUAL_HEIGHT) => ~gameRunning'
       /\ (pc = "checkCollisions" /\ BirdInSomePipe) => ~gameRunning'
       /\ (gameRunning /\ ~gameRunning')
             => \/ pc = "updateBird" /\ RawY + BIRD_HEIGHT > VIRTUAL_HEIGHT
                \/ pc = "checkCollisions" /\ BirdInSomePipe]_vars

C5_Witness ==
    /\ pc = "idle"
    /\ ~gameRunning
    /\ bird.y + BIRD_HEIGHT < VIRTUAL_HEIGHT
    /\ \E k \in 1 .. Len(pipes) :
          /\ StrictOverlap(bird.x, bird.x + BIRD_WIDTH, pipes[k].x, pipes[k].x + PIPE_WIDTH)
          /\ StrictOverlap(bird.y, bird.y + BIRD_HEIGHT, pipes[k].bottomY, VIRTUAL_HEIGHT)

(***************************************************************************)
(* C6: from the first startGame on, 0 <= bird.y <= VIRTUAL_HEIGHT -        *)
(* BIRD_HEIGHT (579) after every updateBird call, for any frames and flaps.*)
(***************************************************************************)
C6_BirdInView == pc # "init" => (0 <= bird.y /\ bird.y <= 5790000)

C6_Witness == pc = "updatePipes" /\ gameRunning /\ bird.y = 0 /\ ticks > 0

(***************************************************************************)
(* C7: when startGame has reset the state and enters the first frame       *)
(* update, score and spawnTimer are 0, there are no particles, the bird is *)
(* at its initial position with velocity 0, the game is running and not    *)
(* over, and the world holds exactly the 3 new unpassed pipes and exactly  *)
(* 5 clouds, nothing of the previous session.                              *)
(***************************************************************************)
C7_Reset ==
    (pc = "updateClouds" /\ ticks = 0) =>
        /\ score = 0
        /\ spawnTimer = 0
        /\ particles = << >>
        /\ bird.x = 500000 /\ bird.y = 2895000 /\ bird.velocity = 0
        /\ gameRunning /\ ~gameOver
        /\ Len(pipes) = 3
        /\ \A k \in 1 .. Len(pipes) : ~pipes[k].passed /\ pipes[k].x >= VIRTUAL_WIDTH
        /\ Len(clouds) = 5

C7_Witness == pc = "updateClouds" /\ ticks = 0 /\ sessions = 2 /\ finalScoreDisplay = 1

(***************************************************************************)
(* C8: flap() while the game is running sets bird.velocity to exactly      *)
(* FLAP_STRENGTH, whatever it was, and appends exactly 3 particles; while  *)
(* the game is not running it changes nothing.                             *)
(***************************************************************************)
C8_Flap ==
    [][(~flapped /\ flapped') =>
          IF gameRunning
          THEN /\ bird'.velocity = 0 - 75000
               /\ bird'.y = bird.y /\ bird'.x = bird.x
               /\ Len(particles') = Len(particles) + 3
               /\ SubSeq(particles', 1, Len(particles)) = particles
               /\ UNCHANGED <<pipes, clouds, score, gameRunning, gameOver, spawnTimer>>
          ELSE UNCHANGED <<bird, pipes, particles, clouds, score, gameRunning, gameOver,
                           spawnTimer, scoreDisplay, finalScoreDisplay, modalHidden>>]_vars

C8_Witness ==
    flapped /\ gameRunning /\ bird.velocity = FLAP_STRENGTH /\ Len(particles) = 6

(***************************************************************************)
(* C9: when updateBird moves the bird's top above the ceiling, the bird is *)
(* clamped to y = 0 with velocity 0 and the game keeps running; with the   *)
(* bird at the ceiling the game ends in that frame only on a pipe overlap. *)
(***************************************************************************)
C9_Ceiling ==
    [][/\ (pc = "updateBird" /\ RawY < 0)
             => (bird'.y = 0 /\ bird'.velocity = 0 /\ gameRunning' = gameRunning)
       /\ (bird.y = 0 /\ gameRunning /\ ~gameRunning')
             => (pc = "checkCollisions" /\ BirdInSomePipe)]_vars

C9_Witness ==
    pc = "idle" /\ gameRunning /\ bird.y = 0 /\ bird.velocity = 0 /\ ticks > 0

(***************************************************************************)
(* C10: every pipe in the list, pre-spawned or timed, has                  *)
(* 80 <= topHeight <= VIRTUAL_HEIGHT - PIPE_GAP - 80 and                   *)
(* bottomY = topHeight + PIPE_GAP, and updatePipes moves a pipe without    *)
(* changing these two fields; no other step of a session touches the list. *)
(***************************************************************************)
C10_Shape(p) ==
    /\ 800000 <= p.topHeight
    /\ p.topHeight <= VIRTUAL_HEIGHT - PIPE_GAP - 800000
    /\ p.bottomY = p.topHeight + PIPE_GAP
    /\ p.topHeight + PIPE_GAP + 800000 <= VIRTUAL_HEIGHT

C10_Pipes ==
    [][/\ \A k \in 1 .. Len(pipes') : C10_Shape(pipes'[k])
       /\ (SameSession /\ pc # "updatePipes") => pipes' = pipes
       /\ pc = "updatePipes" =>
             \A j \in 1 .. Len(pipes) :
                \/ pipes[j].x - PIPE_SPEED + PIPE_WIDTH < 0
                \/ \E k \in 1 .. Len(pipes') :
                      /\ pipes'[k].x = pipes[j].x - PIPE_SPEED
                      /\ pipes'[k].topHeight = pipes[j].topHeight
                      /\ pipes'[k].bottomY = pipes[j].bottomY]_vars

C10_Witness ==
    /\ Len(pipes) = 4
    /\ pipes[1].topHeight = 3200000
    /\ pipes[1].x < 0
    /\ pipes[4].x < VIRTUAL_WIDTH

\* pipes of list ps that the coming updatePipes pass splices out
GoneNext(ps) ==
    Cardinality({k \in 1 .. Len(ps) : ps[k].x - PIPE_SPEED + PIPE_WIDTH < 0})

(***************************************************************************)
(* C11: an updatePipes pass in which the spawn timer reaches PIPE_INTERVAL *)
(* creates exactly one new pipe, at x = VIRTUAL_WIDTH (moved once by the   *)
(* same pass), and resets spawnTimer to 0; any other pass creates no pipe  *)
(* and adds 1 to the timer.  So spawnTimer stays in 0 .. PIPE_INTERVAL-1   *)
(* and equals the number of update passes of the session modulo            *)
(* PIPE_INTERVAL, whatever the score is.                                   *)
(***************************************************************************)
C11_Cadence ==
    [][/\ pc = "updatePipes" =>
             IF spawnTimer + 1 = PIPE_INTERVAL
             THEN /\ spawnTimer' = 0
                  /\ Len(pipes') = Len(pipes) - GoneNext(pipes) + 1
                  /\ pipes'[Len(pipes')].x = VIRTUAL_WIDTH - PIPE_SPEED
                  /\ ~pipes'[Len(pipes')].passed
             ELSE /\ spawnTimer' = spawnTimer + 1
                  /\ Len(pipes') = Len(pipes) - GoneNext(pipes)
       /\ pc # "updatePipes" => (Len(pipes') <= Len(pipes) \/ ~SameSession)
       /\ 0 <= spawnTimer' /\ spawnTimer' < PIPE_INTERVAL
       /\ sessions' > 0 => spawnTimer' = PipeUpdates' % PIPE_INTERVAL]_vars

C11_Witness ==
    /\ pc = "updateParticles"
    /\ ticks = 159
    /\ spawnTimer = 0
    /\ Len(pipes) = 4
    /\ pipes[4].x = 3982000

(***************************************************************************)
(* C12                                                                     *)
(***************************************************************************)
\* one rectangle lies entirely left of, right of, above or below the other, apart from it
Disjoint(r, s) ==
    \/ r.x + r.width < s.x
    \/ s.x + s.width < r.x
    \/ r.y + r.height < s.y
    \/ s.y + s.height < r.y

\* the closed rectangles meet but their interiors do not: a shared edge or corner
Touching(r, s) ==
    /\ ~Disjoint(r, s)
    /\ \/ r.x + r.width = s.x
       \/ s.x + s.width = r.x
       \/ r.y + r.height = s.y
       \/ s.y + s.height = r.y

\* r lies inside s
Inside(r, s) ==
    /\ s.x <= r.x /\ r.x + r.width <= s.x + s.width
    /\ s.y <= r.y /\ r.y + r.height <= s.y + s.height

\* the interiors overlap on the x axis and on the y axis
OverlapBothAxes(r, s) ==
    /\ StrictOverlap(r.x, r.x + r.width, s.x, s.x + s.width)
    /\ StrictOverlap(r.y, r.y + r.height, s.y, s.y + s.height)

\* C12: isColliding returns true exactly when the two rectangles overlap strictly
\* on both axes: false for disjoint rectangles and for rectangles that only touch
\* along an edge or a corner, true for a rectangle inside another, and the same
\* result with the arguments swapped.
C12_Colliding ==
    result # "untested" =>
        /\ (result = "true") <=> OverlapBothAxes(argRect1, argRect2)
        /\ Disjoint(argRect1, argRect2) => result = "false"
        /\ Touching(argRect1, argRect2) => result = "false"
        /\ (Inside(argRect1, argRect2) \/ Inside(argRect2, argRect1)) => result = "true"
        /\ (result = "true") <=> isColliding(argRect2, argRect1)

\* a 1 x 1 rectangle strictly inside a 3 x 3 rectangle was reported as colliding
C12_Witness ==
    /\ result = "true"
    /\ argRect1 = [x |-> 2, y |-> 2, width |-> 1, height |-> 1]
    /\ argRect2 = [x |-> 1, y |-> 1, width |-> 3, height |-> 3]

(***************************************************************************)
(* C13                                                                     *)
(***************************************************************************)
AudioNames == {a \in AssetNames : assetType(a) = "audio"}

\* some audio element fired its error event and no image did
OnlyAudioFailed ==
    /\ \E a \in AudioNames : assets[a].event = "error"
    /\ \A a \in AssetNames \ AudioNames : assets[a].event # "error"

\* C13: a failure to load an audio asset is not fatal: the promise of an audio
\* asset is resolved, not rejected, by its error event, so loadAssets is not
\* rejected when only audio assets failed.
C13_AudioNonFatal ==
    /\ \A a \in AudioNames : assets[a].event = "error" => assets[a].promise = "resolved"
    /\ OnlyAudioFailed => loadAssetsPromise # "rejected"

\* the rest of C13: the error event of an audio asset leaves the game alone
\* (gameRunning, the scheduled callback and every other game variable)
C13_GameUntouched ==
    [][(\E a \in AudioNames : assets[a].event # "error" /\ assets'[a].event = "error")
          => UNCHANGED gameVars]_vars

\* the game runs, with its callback scheduled, after the music failed to load
C13_Reached ==
    /\ assets["backgroundMusic"].event = "error"
    /\ gameRunning
    /\ rafQueue = 1
    /\ ticks = LoadTicks

(***************************************************************************)
(* C14                                                                     *)
(***************************************************************************)
\* the distance in x between two pipes
Apart(p, q) == IF p.x >= q.x THEN p.x - q.x ELSE q.x - p.x

\* C14: pipes keep a stable, even spacing: in every state of a session any two
\* distinct pipes of the list, pre-spawned or spawned by the timer, are at least
\* PIPE_INTERVAL * PIPE_SPEED (288 virtual units) apart in x.
C14_Spacing ==
    sessions > 0 =>
        \A i, j \in 1 .. Len(pipes) :
            i # j => Apart(pipes[i], pipes[j]) >= PIPE_INTERVAL * PIPE_SPEED

(***************************************************************************)
(* C15                                                                     *)
(***************************************************************************)
\* C15: the final score shown at game over is the session's score: in every
\* state where the game is over, also in the rest of the pass in which updateBird
\* called endGame before updatePipes ran, the final-score display equals the
\* score counter and the live score display.
C15_FinalScore ==
    gameOver => /\ finalScoreDisplay = score
                /\ scoreDisplay = score

\* updateBird ended a game with one pipe scored, and updatePipes of that pass has run
C15_Witness ==
    /\ gameOver
    /\ pc = "updateParticles"
    /\ bird.y = VIRTUAL_HEIGHT - BIRD_HEIGHT
    /\ score = 1
    /\ finalScoreDisplay = 1

(***************************************************************************)
(* C16                                                                     *)
(***************************************************************************)
\* C16: ending the game drops the scheduled frame callback: once the pass in
\* which endGame was called has finished, no gameLoop callback is scheduled
\* until startGame.
C16_Dropped ==
    (pc = "idle" /\ gameOver) => (rafQueue = 0 /\ refreshLeft = 0)

\* the rest of C16: while the game is over no gameLoop callback is scheduled anew
C16_NotRescheduled ==
    [][(gameOver /\ gameOver' /\ pc = "idle") => rafQueue' + refreshLeft' <= rafQueue + refreshLeft]_vars

(***************************************************************************)
(* C17                                                                     *)
(***************************************************************************)
\* the particles that outlive the next updateParticles pass
Survivors(ps) == SelectSeq(ps, LAMBDA p : p.life > 1)

\* C17: every particle is created with life 30, loses exactly 1 life per
\* updateParticles pass and is removed in the pass where its life reaches 0;
\* every particle of the list has 1 <= life <= 30, and with at most
\* one flap per frame (variable flapped) the list never holds more than
\* flapFeathers * FeatherLife = 3 * 1 * 30 particles.
C17_Lifecycle ==
    [][/\ pc = "updateParticles" =>
              /\ Len(particles') = Len(Survivors(particles))
              /\ \A j \in 1 .. Len(particles') :
                     particles'[j].life = Survivors(particles)[j].life - 1
       /\ (pc # "updateParticles" /\ Len(particles') > Len(particles)) =>
              /\ SubSeq(particles', 1, Len(particles)) = particles
              /\ \A j \in Len(particles) + 1 .. Len(particles') : particles'[j].life = FeatherLife
       /\ (pc # "updateParticles" /\ Len(particles') <= Len(particles)) =>
              (particles' = particles \/ particles' = <<>>)
       /\ \A j \in 1 .. Len(particles') :
              1 <= particles'[j].life /\ particles'[j].life <= FeatherLife
       /\ Len(particles') <= flapFeathers * FeatherLife]_vars

\* the list is full: three particles of every life from 1 to 30
C17_Witness ==
    /\ pc = "idle"
    /\ Len(particles) = flapFeathers * FeatherLife
    /\ particles[1].life = 1
    /\ particles[Len(particles)].life = FeatherLife

(***************************************************************************)
(* C18                                                                     *)
(***************************************************************************)
\* passes a pipe stays in the list after entering at the right edge
PipeLifetime == (VIRTUAL_WIDTH + PIPE_WIDTH) \div PIPE_SPEED + 1

\* the pre-spawned pipes plus the timed pipes spawned within one pipe lifetime
MaxPipes == initialPipes + PipeLifetime \div PIPE_INTERVAL + 1

\* pipe p of the list before updatePipes is in the list ps after it, moved by PIPE_SPEED
Stays(p, ps) ==
    \E j \in 1 .. Len(ps) :
        /\ ps[j].x = p.x - PIPE_SPEED
        /\ ps[j].topHeight = p.topHeight
        /\ ps[j].bottomY = p.bottomY

\* C18: no pipe leaves the world unscored: every pipe that updatePipes removes
\* has its right edge left of x = 0 and its passed flag set, a pipe whose right
\* edge is not left of x = 0 stays, no other step of a session removes a pipe,
\* and the list never holds more than MaxPipes pipes.
C18_Removal ==
    [][/\ pc = "updatePipes" =>
              \A k \in 1 .. Len(pipes) :
                  IF Stays(pipes[k], pipes')
                  THEN pipes[k].x - PIPE_SPEED + PIPE_WIDTH >= 0
                  ELSE /\ pipes[k].x - PIPE_SPEED + PIPE_WIDTH < 0
                       /\ pipes[k].passed
       /\ (pc # "updatePipes" /\ SameSession) => pipes' = pipes
       /\ Len(pipes') <= MaxPipes]_vars

\* the first pipe has been removed, scored once, while the game goes on
C18_Witness ==
    /\ pc = "updateParticles"
    /\ gameRunning
    /\ PipesCreated = 4
    /\ Len(pipes) = 3
    /\ score = 1
    /\ PassedInList = 0

(***************************************************************************)
(* C19                                                                     *)
(***************************************************************************)
\* the state right after startGame: the first pass of the session begins
JustStarted == pc = "updateClouds" /\ ticks = 0 /\ gameRunning

\* no pipe has reached the bird: every pipe is still to the right of it
NoPipeReached == \A k \in 1 .. Len(pipes) : pipes[k].x > bird.x + bird.width

\* the game has ended on the floor, before any pipe reached the bird
EndedOnFloor ==
    /\ ~gameRunning
    /\ gameOver
    /\ bird.y = VIRTUAL_HEIGHT - BIRD_HEIGHT
    /\ score = 0
    /\ Len(pipes) = initialPipes
    /\ NoPipeReached

\* C19: if the player never flaps after a start and frame callbacks keep being
\* delivered, the game always ends: gameRunning becomes false with the bird on
\* the floor, before any pipe reaches the bird.
C19_EndsOnFloor == JustStarted ~> EndedOnFloor

\* the first session ended on the floor in pass 44, the first pipe 320.8 units away
C19_Witness ==
    /\ EndedOnFloor
    /\ pc = "idle"
    /\ sessions = 1
    /\ ticks = 44
    /\ pipes[1].x = 3708000

====
